---- MODULE Spec2Model ----
(***************************************************************************)
(* Model of the knowledge distillation pipeline                            *)
(* (backend/services/distillation_pipeline.py) and of the collaborators    *)
(* it calls (AIService._call_api / analyze_image, the Telegram notifier).  *)
(*                                                                         *)
(* Conventions                                                             *)
(*   - A text (Python str) is a sequence of one-character strings.         *)
(*     Chinese literals of the source are written with ASCII stand-ins of  *)
(*     the same length; the original is given in a comment.                *)
(*   - A JSON value is a record [t, s, l, n]: t is its type tag, s the     *)
(*     text of a string, l the items of a list of strings, n a number      *)
(*     (confidences are kept in hundredths: 0.7 is 70) or a boolean (0/1). *)
(*   - A Python dict is a function from key names to JSON values, so that  *)
(*     a missing key and a key holding null are different things.          *)
(*   - A Python value that a stage may hold is a record [kind, d, n]:      *)
(*     a dict, a non-dict JSON value (kind "list", n its length), or       *)
(*     "unset" (the name was never bound).                                 *)
(*   - An operator that models a function that can raise returns a record  *)
(*     with a field exc; the caller models the try/except around the call. *)
(***************************************************************************)
EXTENDS Integers, Sequences, FiniteSets, TLC

VARIABLES
    ai_configured,  \* settings.ai_configured (config.py:48-51)
    run,            \* the locals of one DistillationPipeline.run invocation
    twin,           \* SpecPair only: the same invocation with every notification
                    \* delivered (ref), and whether a delivery of run has raised
    ex,             \* SpecParse only: one raw text and what _parse_json makes of it
    peer,           \* SpecConc only: a second invocation on the same instance
    inst,           \* the attributes of the DistillationPipeline instance
    req,            \* SpecCreate only: one create-knowledge request
    knowledge       \* SpecProcess only: one Knowledge row and the position of
                    \* process_with_ai on it

vars == <<ai_configured, run, twin, ex, peer, inst, req, knowledge>>

-----------------------------------------------------------------------------
(* Bounds of the model *)

MaxImages == 1      \* longest image list given to run
MaxTags == 2        \* longest tag list the model (LLM) returns

(* Program constants *)

MinContentLen == 10         \* len(actual_content.strip()) < 10
SimpleTitleLen == 80        \* actual_content[:80]
SimpleSummaryLen == 300     \* actual_content[:300]
ExtractTitleLen == 100      \* actual_content[:100]
ExtractSummaryLen == 500    \* actual_content[:500], content[:500]
ConfidenceThreshold == 70   \* confidence >= 0.7, in hundredths
DefaultConfidence == 50     \* verification.get("confidence", 0.5), in hundredths
CreateTitleLen == 80        \* initial_content[:80]

-----------------------------------------------------------------------------
(* Texts *)

Min(a, b) == IF a <= b THEN a ELSE b

IsSpace(c) == c \in {" ", "\n", "\t"}

RECURSIVE LStrip(_)
LStrip(t) == IF t # <<>> /\ IsSpace(Head(t)) THEN LStrip(Tail(t)) ELSE t

RECURSIVE RStrip(_)
RStrip(t) ==
    IF t # <<>> /\ IsSpace(t[Len(t)]) THEN RStrip(SubSeq(t, 1, Len(t) - 1)) ELSE t

\* str.strip()
Strip(t) == RStrip(LStrip(t))

\* t[:n]
Prefix(t, n) == SubSeq(t, 1, Min(n, Len(t)))

\* Literals of the source
TXT_UNKNOWN_CONTENT == <<"U", "n", "k", "C">>   \* "未知内容"
TXT_IMAGE_CONTENT == <<"I", "m", "g", "C">>     \* "图片内容"
TXT_UNCATEGORIZED == <<"U", "n", "c">>          \* "未分类"
TXT_INTERMEDIATE == <<"M", "d">>                \* "中级"
TXT_UNKNOWN == <<"U", "k">>                     \* "未知"
TXT_FAILED == <<"F", "a", "i", "l">>            \* "处理失败"
TAG_VERIFIED == <<"V", "f", "d">>               \* "已验证"
ERR_NO_CONTENT == <<"E", "1">>                  \* "没有有效内容"
ERR_NO_RESULT == <<"E", "2">>                   \* "AI 未返回结果"
ERR_PARSE == <<"E", "3">>                       \* "解析失败: ..."
ERR_NO_EXTRACT == <<"E", "4">>                  \* "没有有效内容可提取"
ERR_VERIFY == <<"E", "5">>                      \* "验证过程出现异常"
LBL_IMAGE == <<"[", "I", "m", "g", "C", "]", "\n">>                 \* "[图片内容]\n"
LBL_TEXT == <<"\n", "\n", "[", "T", "x", "t", "C", "]", "\n">>      \* "\n\n[文字内容]\n"
SEP == <<"\n", "\n">>                                               \* "\n\n"

-----------------------------------------------------------------------------
(* JSON values and Python dicts *)

JNull == [t |-> "null", s |-> <<>>, l |-> <<>>, n |-> 0]
JStr(x) == [t |-> "str", s |-> x, l |-> <<>>, n |-> 0]
JList(x) == [t |-> "list", s |-> <<>>, l |-> x, n |-> 0]
JNum(x) == [t |-> "num", s |-> <<>>, l |-> <<>>, n |-> x]
JBool(b) == [t |-> "bool", s |-> <<>>, l |-> <<>>, n |-> IF b THEN 1 ELSE 0]

JObj == [t |-> "obj", s |-> <<>>, l |-> <<>>, n |-> 0]     \* the nested object {}

\* bool(v)
Truthy(v) ==
    CASE v.t = "null" -> FALSE
      [] v.t = "str" -> v.s # <<>>
      [] v.t = "list" -> v.l # <<>>
      [] v.t = "obj" -> FALSE
      [] OTHER -> v.n # 0

\* v[:k] raises TypeError unless v is a str or a list
Sliceable(v) == v.t \in {"str", "list"}

EmptyDict == [k \in {} |-> JNull]

\* d.get(k, default)
Get(d, k, default) == IF k \in DOMAIN d THEN d[k] ELSE default

\* d.get(k)
GetOrNone(d, k) == Get(d, k, JNull)

\* a or b
Or(a, b) == IF Truthy(a) THEN a ELSE b

PvDict(d) == [kind |-> "dict", d |-> d, n |-> 0]
PvList(len) == [kind |-> "list", d |-> EmptyDict, n |-> len]
PvUnset == [kind |-> "unset", d |-> EmptyDict, n |-> 0]

IsDict(v) == v.kind = "dict"

\* bool(v) of a parsed value
PvTruthy(v) == IF v.kind = "dict" THEN DOMAIN v.d # {} ELSE v.n > 0

RequiredFields ==
    {"title", "summary", "key_points", "tags", "category", "difficulty", "action_items"}

-----------------------------------------------------------------------------
(* Model Gateway: AIService *)

\* What the upstream model answers to one request: nothing usable (an HTTP
\* error, a timeout, empty content), text that is not JSON, or JSON text.
ReplyNone == [kind |-> "none", body |-> "", val |-> PvUnset, txt |-> <<>>]
ReplyInvalid == [kind |-> "text", body |-> "invalid", val |-> PvUnset, txt |-> <<"?">>]
ReplyJson(v) == [kind |-> "text", body |-> "json", val |-> v, txt |-> <<"{">>]
ReplyPlain(t) == [kind |-> "text", body |-> "invalid", val |-> PvUnset, txt |-> t]

\* AIService._call_api: None when unconfigured or when the request fails
_call_api(configured, reply) == IF ~configured THEN ReplyNone ELSE reply

\* AIService.analyze_image: the vision call. No request is made when the
\* service is unconfigured or when no image could be loaded.
analyze_image(configured, images, reply) ==
    IF ~configured THEN [ret |-> ReplyNone, called |-> FALSE]
    ELSE IF \A i \in 1..Len(images) : images[i] # "ok"
         THEN [ret |-> ReplyNone, called |-> FALSE]
         ELSE [ret |-> _call_api(configured, reply), called |-> TRUE]

\* DistillationPipeline._parse_json
_parse_json(reply) ==
    IF reply.kind = "none" THEN [exc |-> FALSE, val |-> PvDict(EmptyDict)]
    ELSE IF reply.body = "invalid" THEN [exc |-> TRUE, val |-> PvUnset]
    ELSE [exc |-> FALSE, val |-> reply.val]

-----------------------------------------------------------------------------
(* Notification Sink *)

\* send_message returns True, returns False (disabled, no chat, HTTP error), or
\* the service raises
NotifyOutcomes == {"sent", "failed", "raises"}

\* _notify without its except clause
NotifyPropagates(outcome) == outcome = "raises"

\* DistillationPipeline._notify: whether the call raises to run. An exception
\* of get_telegram_service or send_message is caught and logged (line 44).
_notify(outcome) == IF outcome = "raises" THEN FALSE ELSE FALSE

-----------------------------------------------------------------------------
(* DistillationPipeline._simple_distill *)

\* a text request that is sent again after it returned
TextCallRetried(result) == <<"call_api:text", "call_api:text">>

\* History entry of one text request to the gateway
TextCall(result) == <<"call_api:text">>

\* History: what a text request returned
TextReply(result) ==
    IF result.kind = "none" THEN "none"
    ELSE IF result.body = "json" THEN "json" ELSE "invalid"

VisionCall(configured, images, vreply) ==
    IF Len(images) > 0 /\ analyze_image(configured, images, vreply).called
    THEN <<"call_api:vision",
           IF analyze_image(configured, images, vreply).ret.kind = "none"
           THEN "reply:none" ELSE "reply:text">>
    ELSE <<>>

SimpleContent(configured, content, images, vreply) ==
    LET image_text == IF Len(images) > 0
                      THEN analyze_image(configured, images, vreply).ret
                      ELSE ReplyNone
    IN  IF image_text.kind = "text" /\ image_text.txt # <<>>
        THEN IF content # <<>> THEN image_text.txt \o SEP \o content
             ELSE image_text.txt
        ELSE content

\* only missing or blank content counts as unusable
BlankContentOnly(actual_content) == Strip(actual_content) = <<>>

NoUsableContent(actual_content) ==
    actual_content = <<>> \/ Len(Strip(actual_content)) < MinContentLen

_simple_distill(configured, content, images, vreply, treply) ==
    LET actual_content == SimpleContent(configured, content, images, vreply)
        vcalls == VisionCall(configured, images, vreply)
        result == _call_api(configured, treply)
        parsed == _parse_json(result)
    IN  IF NoUsableContent(actual_content)
        THEN [val |-> PvDict([error |-> JStr(ERR_NO_CONTENT)]), calls |-> vcalls]
        ELSE IF result.kind = "none"
        THEN [val |-> PvDict([error |-> JStr(ERR_NO_RESULT)]),
              calls |-> vcalls \o TextCall(result)]
        ELSE IF parsed.exc
        THEN [val |-> PvDict([title |-> JStr(Prefix(actual_content, SimpleTitleLen)),
                              summary |-> JStr(Prefix(actual_content, SimpleSummaryLen)),
                              key_points |-> JList(<<>>),
                              tags |-> JList(<<>>),
                              category |-> JStr(TXT_UNCATEGORIZED),
                              difficulty |-> JStr(TXT_INTERMEDIATE),
                              action_items |-> JList(<<>>),
                              error |-> JStr(ERR_PARSE)]),
              calls |-> vcalls \o TextCall(result)]
        ELSE [val |-> parsed.val, calls |-> vcalls \o TextCall(result)]

-----------------------------------------------------------------------------
(* Stage executors *)

StartsWith(t, p) == Len(t) >= Len(p) /\ SubSeq(t, 1, Len(p)) = p

HTTP == <<"h", "t", "t", "p", ":", "/", "/">>
HTTPS == <<"h", "t", "t", "p", "s", ":", "/", "/">>

\* the characters that end a match of [^\s<>"')\]]*
UrlStop(c) == IsSpace(c) \/ c \in {"<", ">", "\"", "'", ")", "]"}

RECURSIVE TakeUrl(_)
TakeUrl(t) ==
    IF t = <<>> \/ UrlStop(Head(t)) THEN <<>> ELSE <<Head(t)>> \o TakeUrl(Tail(t))

\* re.findall(r'https?://[^\s<>"\')\]]*', text)
RECURSIVE FindUrls(_)
FindUrls(t) ==
    IF t = <<>> THEN <<>>
    ELSE LET scheme == IF StartsWith(t, HTTPS) THEN HTTPS
                       ELSE IF StartsWith(t, HTTP) THEN HTTP ELSE <<>>
             rest == SubSeq(t, Len(scheme) + 1, Len(t))
             url == TakeUrl(rest)
         IN  IF scheme = <<>> THEN FindUrls(Tail(t))
             ELSE <<scheme \o url>> \o FindUrls(SubSeq(rest, Len(url) + 1, Len(rest)))

RECURSIVE Dedup(_)
Dedup(q) ==
    IF q = <<>> THEN <<>>
    ELSE LET front == Dedup(SubSeq(q, 1, Len(q) - 1))
             last == q[Len(q)]
         IN  IF \E i \in 1..Len(front) : front[i] = last THEN front
             ELSE Append(front, last)

\* DistillationPipeline._extract_urls: list(set(urls)); the order of the
\* result is the set's iteration order, taken here as first occurrence
_extract_urls(text) == Dedup(FindUrls(text))

\* _stage_extract, lines 246-254
ExtractContent(configured, content, images, vreply) ==
    LET image_text == IF Len(images) > 0
                      THEN analyze_image(configured, images, vreply).ret
                      ELSE ReplyNone
    IN  IF image_text.kind = "text" /\ image_text.txt # <<>>
        THEN IF content # <<>>
             THEN LBL_IMAGE \o image_text.txt \o LBL_TEXT \o content
             ELSE LBL_IMAGE \o image_text.txt
        ELSE content

\* _stage_extract, lines 269-275
ExtractFallback(actual_content) ==
    [title |-> JStr(Prefix(actual_content, ExtractTitleLen)),
     raw_summary |-> JStr(Prefix(actual_content, ExtractSummaryLen)),
     detected_urls |-> JList(_extract_urls(actual_content)),
     detected_names |-> JList(<<>>),
     content_language |-> JStr(TXT_UNKNOWN)]

_stage_extract(configured, content, images, vreply, treply) ==
    LET actual_content == ExtractContent(configured, content, images, vreply)
        vcalls == VisionCall(configured, images, vreply)
        result == _call_api(configured, treply)
        parsed == _parse_json(result)
    IN  IF NoUsableContent(actual_content)
        THEN [val |-> PvDict([error |-> JStr(ERR_NO_EXTRACT)]), calls |-> vcalls,
              reply |-> ""]
        ELSE IF parsed.exc
        THEN [val |-> PvDict(ExtractFallback(actual_content)),
              calls |-> vcalls \o TextCall(result), reply |-> TextReply(result)]
        ELSE [val |-> parsed.val,
              calls |-> vcalls \o TextCall(result), reply |-> TextReply(result)]

\* _stage_analyze, lines 318-323
AnalyzeFallback ==
    [content_type |-> JStr(TXT_UNKNOWN),
     domain |-> JStr(TXT_UNKNOWN),
     tech_stack |-> JList(<<>>),
     complexity_level |-> JStr(TXT_INTERMEDIATE)]

_stage_analyze(configured, extraction, treply) ==
    LET result == _call_api(configured, treply)
        parsed == _parse_json(result)
    IN  [val |-> IF parsed.exc THEN PvDict(AnalyzeFallback) ELSE parsed.val,
         calls |-> TextCall(result), reply |-> TextReply(result)]

\* _stage_search, lines 387-391
SearchFallback(extraction) ==
    [found_urls |-> Get(extraction.d, "detected_urls", JList(<<>>)),
     install_commands |-> JObj,
     quick_start |-> JStr(<<>>)]

\* _stage_search: the context of lines 369-375 is built outside the try, and
\* analysis.get raises there when analysis is not a dict
_stage_search(configured, extraction, analysis, treply) ==
    LET result == _call_api(configured, treply)
        parsed == _parse_json(result)
    IN  IF ~IsDict(extraction) \/ ~IsDict(analysis)
        THEN [exc |-> TRUE, val |-> PvUnset, calls |-> <<>>, reply |-> ""]
        ELSE [exc |-> FALSE,
              val |-> IF parsed.exc THEN PvDict(SearchFallback(extraction))
                      ELSE parsed.val,
              calls |-> TextCall(result), reply |-> TextReply(result)]

\* _stage_verify, lines 449-454
VerifyFallback ==
    [confidence |-> JNum(DefaultConfidence),
     verified_items |-> JList(<<>>),
     corrections |-> JList(<<>>),
     warnings |-> JList(<<ERR_VERIFY>>)]

_stage_verify(configured, extraction, analysis, enriched, treply) ==
    LET result == _call_api(configured, treply)
        parsed == _parse_json(result)
    IN  [val |-> IF parsed.exc THEN PvDict(VerifyFallback) ELSE parsed.val,
         calls |-> TextCall(result), reply |-> TextReply(result)]

\* _stage_synthesize, lines 541-560
SynthesizeCard(parsed, extraction, analysis, enriched) ==
    [title |-> Get(parsed, "title", Get(extraction.d, "title", JStr(TXT_UNKNOWN))),
     summary |-> Get(parsed, "summary", Get(extraction.d, "raw_summary", JStr(<<>>))),
     key_points |-> Get(parsed, "key_points", JList(<<>>)),
     tags |-> Get(parsed, "tags", JList(<<>>)),
     category |-> Get(parsed, "category",
                      Get(analysis.d, "domain", JStr(TXT_UNCATEGORIZED))),
     difficulty |-> Get(parsed, "difficulty",
                        Get(analysis.d, "complexity_level", JStr(TXT_INTERMEDIATE))),
     action_items |-> Get(parsed, "action_items", JList(<<>>)),
     usage_example |-> GetOrNone(parsed, "usage_example"),
     deployment_guide |-> GetOrNone(parsed, "deployment_guide"),
     is_open_source |-> Get(parsed, "is_open_source", JBool(FALSE)),
     repo_url |-> Or(GetOrNone(parsed, "repo_url"),
                     GetOrNone(enriched.d, "inferred_github_url")),
     official_docs |-> GetOrNone(parsed, "official_docs"),
     quick_reference |-> GetOrNone(parsed, "quick_reference"),
     related_topics |-> Get(parsed, "related_topics", JList(<<>>)),
     learning_resources |-> Get(parsed, "learning_resources", JList(<<>>)),
     pros_cons |-> GetOrNone(parsed, "pros_cons"),
     best_practices |-> Get(parsed, "best_practices", JList(<<>>)),
     common_mistakes |-> Get(parsed, "common_mistakes", JList(<<>>))]

\* a fallback that copies the four texts and leaves the list fields out
SynthesizeFallbackTextsOnly(extraction, analysis) ==
    [title |-> Get(extraction.d, "title", JStr(TXT_FAILED)),
     summary |-> Get(extraction.d, "raw_summary", JStr(<<>>)),
     category |-> Get(analysis.d, "domain", JStr(TXT_UNCATEGORIZED)),
     difficulty |-> Get(analysis.d, "complexity_level", JStr(TXT_INTERMEDIATE))]

\* _stage_synthesize, lines 563-571
SynthesizeFallback(extraction, analysis) ==
    [title |-> Get(extraction.d, "title", JStr(TXT_FAILED)),
     summary |-> Get(extraction.d, "raw_summary", JStr(<<>>)),
     key_points |-> JList(<<>>),
     tags |-> Get(analysis.d, "tech_stack", JList(<<>>)),
     category |-> Get(analysis.d, "domain", JStr(TXT_UNCATEGORIZED)),
     difficulty |-> Get(analysis.d, "complexity_level", JStr(TXT_INTERMEDIATE)),
     action_items |-> JList(<<>>)]

\* _stage_synthesize: inside the try, parsed.get raises when parsed is not a
\* dict, and enriched.get is evaluated (and raises when enriched is not a
\* dict) only when parsed has no truthy repo_url
_stage_synthesize(configured, extraction, analysis, enriched, verification, treply) ==
    LET result == _call_api(configured, treply)
        parsed == _parse_json(result)
        raises == \/ parsed.exc
                  \/ ~IsDict(parsed.val)
                  \/ ~Truthy(GetOrNone(parsed.val.d, "repo_url")) /\ ~IsDict(enriched)
    IN  [val |-> IF raises THEN PvDict(SynthesizeFallback(extraction, analysis))
                 ELSE PvDict(SynthesizeCard(parsed.val.d, extraction, analysis, enriched)),
         calls |-> TextCall(result), reply |-> TextReply(result),
         fallback |-> raises]

-----------------------------------------------------------------------------
(* DistillationPipeline.run *)

Stages == <<"extract", "analyze", "search", "verify", "synthesize">>

NewRun(content, images) ==
    [pc |-> "idle",
     content |-> content,
     images |-> images,
     fast |-> PvUnset,              \* result of _simple_distill, kept when line 71 accepts it
     extraction |-> PvUnset,        \* pipeline_result["raw_extractions"]["extract"]
     analysis |-> PvUnset,
     enriched |-> PvUnset,
     verification |-> PvUnset,
     final |-> PvUnset,             \* pipeline_result["final_result"]
     stages_completed |-> <<>>,
     errors |-> 0,                  \* len(pipeline_result["errors"])
     card |-> PvUnset,              \* the value run returns
     via |-> "",                    \* which return statement produced card
     events |-> <<>>,               \* history: notifications, stages, gateway calls
     replies |-> [s \in {} |-> ""]] \* history: stage -> what its text request returned

\* run, lines 64-67
RunBegin(r, nt) ==
    LET r1 == [r EXCEPT !.events = Append(@, "notify:start")]
    IN  IF _notify(nt) THEN [r1 EXCEPT !.pc = "raised"]
        ELSE [r1 EXCEPT !.pc = "fast"]

\* Whether building the message of line 72 raises:
\* result.get('title', '')[:50] and ', '.join(result.get('tags', [])[:5])
FastMessageRaises(result) ==
    \/ ~Sliceable(Get(result.d, "title", JStr(<<>>)))
    \/ ~Sliceable(Get(result.d, "tags", JList(<<>>)))

\* line 71 without the test of the error field
FastAcceptedAnyObject(result) == PvTruthy(result) /\ IsDict(result)

\* run, line 71: result and not result.get("error"); a truthy result that is
\* not a dict has no get and raises inside the try
FastAccepted(result) ==
    PvTruthy(result) /\ IsDict(result) /\ ~Truthy(GetOrNone(result.d, "error"))

\* lines 80-85 without the notification of line 78
RunDowngradeSilent(r, nt) == [r EXCEPT !.pc = "extract"]

\* run, line 78 and lines 80-85
RunDowngrade(r, nt) ==
    LET r1 == [r EXCEPT !.events = Append(@, "notify:downgrade")]
    IN  IF _notify(nt) THEN [r1 EXCEPT !.pc = "raised"]
        ELSE [r1 EXCEPT !.pc = "extract"]

\* lines 69-78 without the return of line 73
RunFastPathNoReturn(r, configured, vreply, treply, nt) ==
    LET sd == _simple_distill(configured, r.content, r.images, vreply, treply)
        result == sd.val
        r1 == [r EXCEPT !.events = @ \o <<"fast:begin">> \o sd.calls \o <<"fast:end">>,
                        !.fast = IF FastAccepted(result) THEN result ELSE PvUnset]
        r2 == [r1 EXCEPT !.events = Append(@, "notify:fast_done")]
    IN  IF FastAccepted(result) /\ ~FastMessageRaises(result)
        THEN RunDowngrade(r2, nt)
        ELSE RunDowngrade(r1, nt)

\* lines 69-78 with the tagging of lines 121-125 applied to the fast result
RunFastPathTagging(r, configured, vreply, treply, nt) ==
    LET sd == _simple_distill(configured, r.content, r.images, vreply, treply)
        result == sd.val
        r1 == [r EXCEPT !.events = @ \o <<"fast:begin">> \o sd.calls \o <<"fast:end">>,
                        !.fast = IF FastAccepted(result) THEN result ELSE PvUnset]
        r2 == [r1 EXCEPT !.events = Append(@, "notify:fast_done")]
        tagged == PvDict([k \in DOMAIN result.d \cup {"tags"} |->
                            IF k = "tags"
                            THEN JList(Append(Get(result.d, "tags", JList(<<>>)).l, TAG_VERIFIED))
                            ELSE result.d[k]])
    IN  IF FastAccepted(result) /\ ~FastMessageRaises(result)
        THEN IF _notify(nt) THEN RunDowngrade(r2, nt)
             ELSE [r2 EXCEPT !.pc = "done", !.card = tagged, !.via = "fast"]
        ELSE RunDowngrade(r1, nt)

\* run, lines 69-78
RunFastPath(r, configured, vreply, treply, nt) ==
    LET sd == _simple_distill(configured, r.content, r.images, vreply, treply)
        result == sd.val
        r1 == [r EXCEPT !.events = @ \o <<"fast:begin">> \o sd.calls \o <<"fast:end">>,
                        !.fast = IF FastAccepted(result) THEN result ELSE PvUnset]
        r2 == [r1 EXCEPT !.events = Append(@, "notify:fast_done")]
    IN  IF FastAccepted(result) /\ ~FastMessageRaises(result)
        THEN IF _notify(nt) THEN RunDowngrade(r2, nt)
             ELSE [r2 EXCEPT !.pc = "done", !.card = result, !.via = "fast"]
        ELSE RunDowngrade(r1, nt)

\* run, lines 138-148: the card built from the extraction
FallbackCard(ext, content) ==
    [title |-> Get(ext, "title", JStr(TXT_UNKNOWN_CONTENT)),
     summary |-> Get(ext, "raw_summary",
                     IF content # <<>> THEN JStr(Prefix(content, ExtractSummaryLen))
                     ELSE JStr(TXT_IMAGE_CONTENT)),
     key_points |-> Get(ext, "detected_features", JList(<<>>)),
     tags |-> Get(ext, "detected_names", JList(<<>>)),
     category |-> JStr(TXT_UNCATEGORIZED),
     difficulty |-> JStr(TXT_INTERMEDIATE),
     action_items |-> JList(<<>>),
     repo_url |-> LET urls == Get(ext, "detected_urls", JList(<<>>))
                  IN  IF ~Truthy(urls) THEN JNull
                      ELSE IF urls.t = "list" THEN JStr(urls.l[1])
                      ELSE JStr(<<urls.s[1]>>)]

\* run, lines 138-147: ext.get raises when the stored extraction is not a
\* dict, and [0] raises on a truthy detected_urls that cannot be indexed
FallbackRaises(ext) ==
    \/ ~IsDict(ext)
    \/ LET urls == Get(ext.d, "detected_urls", JList(<<>>))
       IN  Truthy(urls) /\ urls.t \notin {"list", "str"}

\* run, lines 131-148: the except branch of the staged pipeline; what is
\* raised inside it leaves run
RunExcept(r, nt) ==
    LET r1 == [r EXCEPT !.errors = @ + 1, !.events = Append(@, "notify:exception")]
        ext == IF r.extraction.kind = "unset" THEN PvDict(EmptyDict) ELSE r.extraction
    IN  IF _notify(nt) \/ FallbackRaises(ext) THEN [r1 EXCEPT !.pc = "raised"]
        ELSE [r1 EXCEPT !.pc = "done",
                        !.card = PvDict(FallbackCard(ext.d, r.content)),
                        !.via = "fallback"]

StageEvent ==
    [extract |-> "stage:extract", analyze |-> "stage:analyze", search |-> "stage:search",
     verify |-> "stage:verify", synthesize |-> "stage:synthesize"]

\* History: a stage executor was entered, made the requests in st.calls and
\* its text request, if made, returned st.reply
Entered(r, stage, st) ==
    [r EXCEPT !.events = @ \o <<StageEvent[stage]>> \o st.calls,
              !.replies = [s \in DOMAIN @ \cup {stage} |->
                              IF s = stage THEN st.reply ELSE @[s]]]

\* lines 88-96 without the test of lines 93-94
RunExtractIgnoringError(r, configured, vreply, treply, nt) ==
    LET st == _stage_extract(configured, r.content, r.images, vreply, treply)
        extraction == st.val
        r1 == [Entered(r, "extract", st) EXCEPT
                   !.extraction = extraction,
                   !.stages_completed = Append(@, "extract")]
        r2 == [r1 EXCEPT !.events = Append(@, "notify:extract_done")]
    IN  IF ~IsDict(extraction)
        THEN RunExcept(r1, nt)
        ELSE [r2 EXCEPT !.pc = "analyze"]

\* run, lines 88-96
RunExtract(r, configured, vreply, treply, nt) ==
    LET st == _stage_extract(configured, r.content, r.images, vreply, treply)
        extraction == st.val
        r1 == [Entered(r, "extract", st) EXCEPT
                   !.extraction = extraction,
                   !.stages_completed = Append(@, "extract")]
        r2 == [r1 EXCEPT !.events = Append(@, "notify:extract_done")]
    IN  IF ~IsDict(extraction) \/ Truthy(GetOrNone(extraction.d, "error"))
        THEN RunExcept(r1, nt)
        ELSE IF _notify(nt) THEN RunExcept(r2, nt)
        ELSE [r2 EXCEPT !.pc = "analyze"]

\* run, lines 98-101
RunAnalyze(r, configured, treply) ==
    LET st == _stage_analyze(configured, r.extraction, treply)
    IN  [Entered(r, "analyze", st) EXCEPT
             !.pc = "search",
             !.analysis = st.val,
             !.stages_completed = Append(@, "analyze")]

\* run, lines 103-106
RunSearch(r, configured, treply, nt) ==
    LET st == _stage_search(configured, r.extraction, r.analysis, treply)
        r1 == Entered(r, "search", st)
    IN  IF st.exc THEN RunExcept(r1, nt)
        ELSE [r1 EXCEPT !.pc = "verify",
                        !.enriched = st.val,
                        !.stages_completed = Append(@, "search")]

\* run, lines 108-113: verification.get raises when verification is not a dict
RunVerify(r, configured, treply, nt) ==
    LET st == _stage_verify(configured, r.extraction, r.analysis, r.enriched, treply)
        r1 == [Entered(r, "verify", st) EXCEPT
                   !.verification = st.val,
                   !.stages_completed = Append(@, "verify")]
    IN  IF ~IsDict(st.val) THEN RunExcept(r1, nt)
        ELSE [r1 EXCEPT !.pc = "synthesize"]

\* run, line 113
Confidence(verification) == Get(verification.d, "confidence", JNum(DefaultConfidence))

\* confidence in hundredths (True is 1.0)
Hundredths(confidence) == IF confidence.t = "bool" THEN 100 * confidence.n ELSE confidence.n

\* run, line 121
ConfidenceHigh(confidence) == Hundredths(confidence) >= ConfidenceThreshold

\* run, lines 123-124
WithVerifiedTag(tags) ==
    IF \E i \in 1..Len(tags) : tags[i] = TAG_VERIFIED THEN tags
    ELSE Append(tags, TAG_VERIFIED)

\* run, lines 121-124: confidence >= 0.7 raises unless confidence is a
\* number, and tags.append (or the membership test) raises unless tags is a list
TaggingRaises(confidence, final) ==
    \/ confidence.t \notin {"num", "bool"}
    \/ ConfidenceHigh(confidence) /\ Get(final, "tags", JList(<<>>)).t # "list"

\* run, lines 121-125
TaggedFinal(confidence, final) ==
    IF ConfidenceHigh(confidence)
    THEN [k \in DOMAIN final \cup {"tags"} |->
            IF k = "tags" THEN JList(WithVerifiedTag(Get(final, "tags", JList(<<>>)).l))
            ELSE final[k]]
    ELSE final

\* run, lines 124: tags of the synthesize fallback is the very list stored in
\* analysis["tech_stack"], so the append shows there too
TaggedAnalysis(confidence, analysis, st) ==
    IF ConfidenceHigh(confidence) /\ st.fallback /\ "tech_stack" \in DOMAIN analysis.d
    THEN PvDict([analysis.d EXCEPT !["tech_stack"] = JList(WithVerifiedTag(@.l))])
    ELSE analysis

\* run, lines 115-129; the message of line 127 slices final.get('title', '')
RunSynthesize(r, configured, treply, nt) ==
    LET st == _stage_synthesize(configured, r.extraction, r.analysis, r.enriched,
                                r.verification, treply)
        confidence == Confidence(r.verification)
        r1 == [Entered(r, "synthesize", st) EXCEPT
                   !.final = st.val,
                   !.stages_completed = Append(@, "synthesize")]
        final == TaggedFinal(confidence, st.val.d)
        r2 == [r1 EXCEPT !.final = PvDict(final),
                         !.analysis = TaggedAnalysis(confidence, @, st)]
        r3 == [r2 EXCEPT !.events = Append(@, "notify:pipeline_done")]
    IN  IF TaggingRaises(confidence, st.val.d) THEN RunExcept(r1, nt)
        ELSE IF ~Sliceable(Get(final, "title", JStr(<<>>))) THEN RunExcept(r2, nt)
        ELSE IF _notify(nt) THEN RunExcept(r3, nt)
        ELSE [r3 EXCEPT !.pc = "done", !.card = PvDict(final), !.via = "synthesize"]

-----------------------------------------------------------------------------
(* Inputs: what the caller passes and what the upstream model answers *)

LongText == <<"R", "e", "a", "c", "t", " ", "i", "s", " ", "J", "S", ".">>
Contents == {<<>>, <<" ", " ">>, <<"a", "b", "c">>, LongText}

\* an image reference either resolves to a file ("ok") or does not
ImageLists == UNION {[1..n -> {"ok", "missing"}] : n \in 0..MaxImages}

TagPool == {TAG_VERIFIED, <<"a", "i">>}
TagLists == UNION {[1..n -> TagPool] : n \in 0..MaxTags}

SampleTitle == JStr(<<"T", "i", "t", "l", "e">>)
SampleUrl == HTTPS \o <<"g", "h", "/", "r">>

SampleCard(tags) ==
    [title |-> SampleTitle,
     summary |-> JStr(<<"S", "u", "m">>),
     key_points |-> JList(<<<<"k", "p">>>>),
     tags |-> JList(tags),
     category |-> JStr(<<"t", "o", "o", "l">>),
     difficulty |-> JStr(<<"l", "o", "w">>),
     action_items |-> JList(<<<<"d", "o">>>>)]

NonObjects == {PvList(0), PvList(1)}

CardReplies ==
    {ReplyJson(PvDict(SampleCard(t))) : t \in TagLists}
    \cup {ReplyJson(PvDict(d)) : d \in
            {[summary |-> JStr(<<"S", "u", "m">>)],
             [title |-> JNull, tags |-> JList(<<>>)],
             [title |-> SampleTitle, tags |-> JStr(<<"a", "i">>)],
             [title |-> SampleTitle, tags |-> JList(<<>>), repo_url |-> JStr(SampleUrl)]}}

FastReplies ==
    {ReplyNone, ReplyInvalid} \cup {ReplyJson(v) : v \in NonObjects}
    \cup {ReplyJson(PvDict(EmptyDict))}
    \cup {ReplyJson(PvDict([title |-> SampleTitle, error |-> JStr(<<"b", "a", "d">>)]))}
    \cup {ReplyJson(PvDict([title |-> SampleTitle, error |-> JStr(<<>>)]))}
    \cup CardReplies

VisionReplies ==
    {ReplyNone, ReplyPlain(<<"o", "k">>),
     ReplyPlain(<<"a", " ", "r", "e", "p", "o", " ", "p", "a", "g", "e">>)}

ExtractReplies ==
    {ReplyNone, ReplyInvalid, ReplyJson(PvList(1))}
    \cup {ReplyJson(PvDict(d)) : d \in
            {[title |-> SampleTitle,
              raw_summary |-> JStr(<<"r", "a", "w">>),
              detected_urls |-> JList(<<SampleUrl>>),
              detected_names |-> JList(<<<<"a", "i">>>>),
              detected_features |-> JList(<<<<"f", "1">>>>)],
             [title |-> SampleTitle, error |-> JStr(<<"b", "a", "d">>)],
             [detected_names |-> JList(<<<<"a", "i">>>>)]}}

AnalyzeReplies ==
    {ReplyNone, ReplyInvalid, ReplyJson(PvList(1)),
     ReplyJson(PvDict([content_type |-> JStr(<<"l", "i", "b">>),
                       domain |-> JStr(<<"w", "e", "b">>),
                       tech_stack |-> JList(<<<<"j", "s">>>>),
                       complexity_level |-> JStr(<<"l", "o", "w">>)]))}

SearchReplies ==
    {ReplyNone, ReplyInvalid, ReplyJson(PvList(1)),
     ReplyJson(PvDict([inferred_github_url |-> JStr(SampleUrl),
                       found_urls |-> JList(<<SampleUrl>>)]))}

VerifyReplies ==
    {ReplyNone, ReplyInvalid, ReplyJson(PvList(1))}
    \cup {ReplyJson(PvDict([confidence |-> c])) :
            c \in {JNum(ConfidenceThreshold - 1), JNum(ConfidenceThreshold), JNull}}

SynthesizeReplies ==
    {ReplyNone, ReplyInvalid, ReplyJson(PvList(1))} \cup CardReplies

-----------------------------------------------------------------------------
(* DistillationPipeline._parse_json on the characters of the text *)

PvNull == [kind |-> "null", d |-> EmptyDict, n |-> 0]       \* json.loads("null")

\* the argument None
NoneText == <<"None">>

\* the fence marker of three backticks; a backtick is written ~
FENCE == <<"~", "~", "~">>
FENCE_JSON == FENCE \o <<"j", "s", "o", "n">>

EndsWith(t, p) == Len(t) >= Len(p) /\ SubSeq(t, Len(t) - Len(p) + 1, Len(t)) = p

\* t[n:]
DropFirst(t, n) == SubSeq(t, n + 1, Len(t))

\* t[:-n]
DropLast(t, n) == SubSeq(t, 1, Len(t) - n)

DOC_OBJ == <<"{", "\"", "a", "\"", ":", "1", "}">>
DOC_OBJ_INDENTED == <<"{", "\n", " ", " ", "\"", "a", "\"", ":", " ", "1", "\n", "}">>
DOC_EMPTY_OBJ == <<"{", "}">>
DOC_LIST == <<"[", "1", "]">>
DOC_LIST_INDENTED == <<"[", "\n", " ", " ", "1", "\n", "]">>
DOC_EMPTY_LIST == <<"[", "]">>
DOC_NULL == <<"n", "u", "l", "l">>
DOC_TRUNCATED == <<"{", "\"", "a", "\"", ":">>
DOC_PROSE == <<"o", "k">>
DOC_REPR == <<"{", "'", "a", "'", ":", " ", "1", "}">>

ObjA == PvDict([a |-> JNum(1)])

\* json.loads: the documents of the texts considered here and their values;
\* every other text raises JSONDecodeError
JsonDocs ==
    {[text |-> DOC_OBJ, val |-> ObjA],
     [text |-> DOC_OBJ_INDENTED, val |-> ObjA],
     [text |-> DOC_EMPTY_OBJ, val |-> PvDict(EmptyDict)],
     [text |-> DOC_LIST, val |-> PvList(1)],
     [text |-> DOC_LIST_INDENTED, val |-> PvList(1)],
     [text |-> DOC_EMPTY_LIST, val |-> PvList(0)],
     [text |-> DOC_NULL, val |-> PvNull]}

json_loads(t) ==
    IF \E doc \in JsonDocs : doc.text = t
    THEN [exc |-> FALSE, val |-> (CHOOSE doc \in JsonDocs : doc.text = t).val]
    ELSE [exc |-> TRUE, val |-> PvUnset]

\* str(value), which is not JSON for an object with keys
python_repr(v) ==
    CASE v = ObjA -> DOC_REPR
      [] v = PvDict(EmptyDict) -> DOC_EMPTY_OBJ
      [] v = PvList(1) -> DOC_LIST
      [] v = PvList(0) -> DOC_EMPTY_LIST
      [] OTHER -> NoneText

\* json.dumps(value, ensure_ascii=False, indent=2)
json_dumps(v) ==
    CASE v = ObjA -> DOC_OBJ_INDENTED
      [] v = PvDict(EmptyDict) -> DOC_EMPTY_OBJ
      [] v = PvList(1) -> DOC_LIST_INDENTED
      [] v = PvList(0) -> DOC_EMPTY_LIST
      [] OTHER -> DOC_NULL

\* _parse_json, lines 579-585
CleanFences(text) ==
    LET c0 == Strip(text)
        c1 == IF StartsWith(c0, FENCE_JSON) THEN DropFirst(c0, 7) ELSE c0
        c2 == IF StartsWith(c1, FENCE) THEN DropFirst(c1, 3) ELSE c1
        c3 == IF EndsWith(c2, FENCE) THEN DropLast(c2, 3) ELSE c2
    IN  c3

\* _parse_json, lines 573-587: exc when json.loads raises
ParseJsonText(text) ==
    IF text = NoneText \/ text = <<>>
    THEN [exc |-> FALSE, val |-> PvDict(EmptyDict)]
    ELSE json_loads(Strip(CleanFences(text)))

\* the language annotations of an opening fence: none, json, another tag
FenceTags == {<<>>, <<"j", "s", "o", "n">>, <<"J", "S", "O", "N">>, <<"p", "y">>}

\* t inside a fenced block
Fenced(tag, t) == FENCE \o tag \o <<"\n">> \o t \o <<"\n">> \o FENCE

\* the raw texts given to the extractor
RawTexts ==
    {NoneText, <<>>, <<" ">>,
     DOC_OBJ, DOC_OBJ_INDENTED, DOC_EMPTY_OBJ, DOC_LIST, DOC_EMPTY_LIST, DOC_NULL,
     <<" ">> \o DOC_OBJ \o <<"\n">>,
     FENCE_JSON \o DOC_OBJ \o FENCE,
     FENCE_JSON \o <<"\n">> \o DOC_OBJ,
     DOC_TRUNCATED, DOC_PROSE, DOC_REPR}

NoResult == [exc |-> FALSE, val |-> PvUnset]

NewExtraction(raw) ==
    [pc |-> "input", raw |-> raw, plain |-> NoResult,
     tag |-> <<>>, fenced |-> NoResult, fenced_done |-> FALSE,
     again |-> NoResult, again_done |-> FALSE]

ExIdle == NewExtraction(NoneText)

-----------------------------------------------------------------------------
(* One run of the pipeline *)

\* DistillationPipeline.__init__: the attributes of the instance
Instance == [stages |-> Stages]

NoPeer == NewRun(<<>>, <<>>)

NoRequest == [pc |-> "none"]

NoEntry == [pc |-> "none"]

Init ==
    /\ ai_configured \in BOOLEAN
    /\ \E content \in Contents, images \in ImageLists : run = NewRun(content, images)
    /\ twin = [ref |-> run, raised |-> FALSE]
    /\ ex = ExIdle
    /\ peer = NoPeer
    /\ inst = Instance
    /\ req = NoRequest
    /\ knowledge = NoEntry

Begin ==
    /\ run.pc = "idle"
    /\ \E nt \in NotifyOutcomes : run' = RunBegin(run, nt)
    /\ UNCHANGED <<ai_configured, twin, ex, peer, inst, req, knowledge>>

FastPath ==
    /\ run.pc = "fast"
    /\ \E vreply \in VisionReplies, treply \in FastReplies, nt \in NotifyOutcomes :
          run' = RunFastPath(run, ai_configured, vreply, treply, nt)
    /\ UNCHANGED <<ai_configured, twin, ex, peer, inst, req, knowledge>>

Extract ==
    /\ run.pc = "extract"
    /\ \E vreply \in VisionReplies, treply \in ExtractReplies, nt \in NotifyOutcomes :
          run' = RunExtract(run, ai_configured, vreply, treply, nt)
    /\ UNCHANGED <<ai_configured, twin, ex, peer, inst, req, knowledge>>

Analyze ==
    /\ run.pc = "analyze"
    /\ \E treply \in AnalyzeReplies : run' = RunAnalyze(run, ai_configured, treply)
    /\ UNCHANGED <<ai_configured, twin, ex, peer, inst, req, knowledge>>

Search ==
    /\ run.pc = "search"
    /\ \E treply \in SearchReplies, nt \in NotifyOutcomes :
          run' = RunSearch(run, ai_configured, treply, nt)
    /\ UNCHANGED <<ai_configured, twin, ex, peer, inst, req, knowledge>>

Verify ==
    /\ run.pc = "verify"
    /\ \E treply \in VerifyReplies, nt \in NotifyOutcomes :
          run' = RunVerify(run, ai_configured, treply, nt)
    /\ UNCHANGED <<ai_configured, twin, ex, peer, inst, req, knowledge>>

Synthesize ==
    /\ run.pc = "synthesize"
    /\ \E treply \in SynthesizeReplies, nt \in NotifyOutcomes :
          run' = RunSynthesize(run, ai_configured, treply, nt)
    /\ UNCHANGED <<ai_configured, twin, ex, peer, inst, req, knowledge>>

Next == Begin \/ FastPath \/ Extract \/ Analyze \/ Search \/ Verify \/ Synthesize

Spec == Init /\ [][Next]_vars

-----------------------------------------------------------------------------
(* Two runs on the same input and the same gateway replies: run with any     *)
(* delivery outcome of its notifications, twin.ref with every one delivered  *)

Terminal == {"done", "raised"}

RepliesAt(pc) ==
    CASE pc = "fast" -> FastReplies
      [] pc = "extract" -> ExtractReplies
      [] pc = "analyze" -> AnalyzeReplies
      [] pc = "search" -> SearchReplies
      [] pc = "verify" -> VerifyReplies
      [] pc = "synthesize" -> SynthesizeReplies
      [] OTHER -> {ReplyNone}

\* the steps that make a vision request take a vision reply
VisionRepliesAt(pc) == IF pc \in {"fast", "extract"} THEN VisionReplies ELSE {ReplyNone}

\* The step of run that r is at
RunStep(r, configured, vreply, treply, nt) ==
    CASE r.pc = "idle" -> RunBegin(r, nt)
      [] r.pc = "fast" -> RunFastPath(r, configured, vreply, treply, nt)
      [] r.pc = "extract" -> RunExtract(r, configured, vreply, treply, nt)
      [] r.pc = "analyze" -> RunAnalyze(r, configured, treply)
      [] r.pc = "search" -> RunSearch(r, configured, treply, nt)
      [] r.pc = "verify" -> RunVerify(r, configured, treply, nt)
      [] r.pc = "synthesize" -> RunSynthesize(r, configured, treply, nt)
      [] OTHER -> r

\* whether the step from r to r2 called _notify
Notified(r, r2) ==
    \E i \in Len(r.events) + 1..Len(r2.events) :
        r2.events[i] \in {"notify:start", "notify:fast_done", "notify:downgrade",
                          "notify:extract_done", "notify:pipeline_done",
                          "notify:exception"}

PairStep ==
    /\ run.pc \notin Terminal
    /\ \E vreply \in VisionRepliesAt(run.pc), treply \in RepliesAt(run.pc),
          nt \in NotifyOutcomes :
          /\ run' = RunStep(run, ai_configured, vreply, treply, nt)
          /\ twin' = [ref |-> RunStep(twin.ref, ai_configured, vreply, treply, "sent"),
                      raised |-> twin.raised \/ (Notified(run, run') /\ nt = "raises")]
    /\ UNCHANGED <<ai_configured, ex, peer, inst, req, knowledge>>

SpecPair == Init /\ [][PairStep]_vars

-----------------------------------------------------------------------------
(* The extractor applied to one raw text: as it is, inside a fenced block,   *)
(* and to the serialised form of its own result                              *)

Idle == /\ run = NewRun(<<>>, <<>>) /\ twin = [ref |-> run, raised |-> FALSE]
        /\ ai_configured = TRUE /\ peer = NoPeer /\ inst = Instance

InitParse ==
    /\ Idle
    /\ req = NoRequest
    /\ knowledge = NoEntry
    /\ \E raw \in RawTexts : ex = NewExtraction(raw)

ExtractPlain ==
    /\ ex.pc = "input"
    /\ ex' = [ex EXCEPT !.pc = "parsed", !.plain = ParseJsonText(ex.raw)]
    /\ UNCHANGED <<ai_configured, run, twin, peer, inst, req, knowledge>>

ExtractFenced ==
    /\ ex.pc = "parsed" /\ ~ex.fenced_done /\ ex.raw # NoneText
    /\ \E tag \in FenceTags :
          ex' = [ex EXCEPT !.tag = tag, !.fenced_done = TRUE,
                           !.fenced = ParseJsonText(Fenced(tag, ex.raw))]
    /\ UNCHANGED <<ai_configured, run, twin, peer, inst, req, knowledge>>

ExtractAgain ==
    /\ ex.pc = "parsed" /\ ~ex.again_done /\ ~ex.plain.exc
    /\ ex' = [ex EXCEPT !.again_done = TRUE,
                        !.again = ParseJsonText(json_dumps(ex.plain.val))]
    /\ UNCHANGED <<ai_configured, run, twin, peer, inst, req, knowledge>>

NextParse == ExtractPlain \/ ExtractFenced \/ ExtractAgain

SpecParse == InitParse /\ [][NextParse]_vars

-----------------------------------------------------------------------------
(* Two invocations of run on the same instance, interleaved: run and peer.   *)
(* twin.ref and twin.peer_ref are the same invocations taken alone.          *)

ConcContents == {<<>>, LongText}

ConcRepliesAt(pc) ==
    CASE pc = "fast" -> {ReplyNone, ReplyJson(PvDict(SampleCard(<<>>)))}
      [] pc = "extract" ->
            {ReplyJson(PvList(1)),
             ReplyJson(PvDict([title |-> SampleTitle,
                               detected_names |-> JList(<<<<"a", "i">>>>)]))}
      [] pc = "analyze" ->
            {ReplyNone, ReplyJson(PvDict([tech_stack |-> JList(<<<<"j", "s">>>>)]))}
      [] pc = "search" -> {ReplyNone}
      [] pc = "verify" -> {ReplyJson(PvDict([confidence |-> JNum(ConfidenceThreshold)]))}
      [] pc = "synthesize" -> {ReplyInvalid, ReplyJson(PvDict(SampleCard(<<>>)))}
      [] OTHER -> {ReplyNone}

\* run with pipeline_result and the stage results kept on the instance
\* instead of in locals
ConcStepOnInstance(r, i, treply) ==
    LET r0 == IF "extraction" \in DOMAIN i
              THEN [r EXCEPT !.extraction = i.extraction] ELSE r
        r2 == RunStep(r0, ai_configured, ReplyNone, treply, "sent")
    IN  [r |-> r2, inst |-> [stages |-> i.stages, extraction |-> r2.extraction]]

\* One step of an invocation on instance i: pipeline_result (lines 80-85) and
\* every stage result are locals of the invocation; self is only read
ConcStep(r, i, treply) ==
    [r |-> RunStep(r, ai_configured, ReplyNone, treply, "sent"), inst |-> i]

InitConc ==
    /\ ai_configured = TRUE
    /\ ex = ExIdle /\ req = NoRequest
    /\ knowledge = NoEntry
    /\ inst = Instance
    /\ \E content \in ConcContents : run = NewRun(content, <<>>)
    /\ \E content \in ConcContents : peer = NewRun(content, <<>>)
    /\ twin = [ref |-> run, raised |-> FALSE, peer_ref |-> peer]

ConcRun ==
    /\ run.pc \notin Terminal
    /\ \E treply \in ConcRepliesAt(run.pc) :
          /\ run' = ConcStep(run, inst, treply).r
          /\ inst' = ConcStep(run, inst, treply).inst
          /\ twin' = [twin EXCEPT !.ref = RunStep(@, ai_configured, ReplyNone, treply, "sent")]
    /\ UNCHANGED <<ai_configured, peer, ex, req, knowledge>>

ConcPeer ==
    /\ peer.pc \notin Terminal
    /\ \E treply \in ConcRepliesAt(peer.pc) :
          /\ peer' = ConcStep(peer, inst, treply).r
          /\ inst' = ConcStep(peer, inst, treply).inst
          /\ twin' = [twin EXCEPT !.peer_ref = RunStep(@, ai_configured, ReplyNone, treply, "sent")]
    /\ UNCHANGED <<ai_configured, run, ex, req, knowledge>>

NextConc == ConcRun \/ ConcPeer

SpecConc == InitConc /\ [][NextConc]_vars

-----------------------------------------------------------------------------
(* POST /api/v1/knowledge: create_knowledge and KnowledgeService.create *)

\* x and len(x.strip()) > 0, for an Optional[str]
HasText(x) == x # NoneText /\ Len(Strip(x)) > 0

\* x and len(x) > 0, for an Optional[List[str]]
HasItems(x) == x # NoneText /\ Len(x) > 0

TXT_PENDING_IMAGES == <<"[", "I", "m", "g", "]", " ">>     \* "[图片内容待分析] 共 {n} 张图片"
TXT_ELLIPSIS == <<".", ".", ".">>

\* KnowledgeService.create, lines 48-82 (auto_process = False): exc when it
\* raises ValueError, else the entry added to the session and committed
KnowledgeService_create(content, title, source_type, source_url, images) ==
    LET has_content == Len(Strip(content)) > 0
        has_images == HasItems(images)
        initial_content == IF has_images /\ ~has_content
                           THEN TXT_PENDING_IMAGES \o <<"n">>
                           ELSE content
        given_title == IF title = NoneText THEN <<>> ELSE title
    IN  IF ~has_content /\ ~has_images
        THEN [exc |-> TRUE, entry |-> <<>>]
        ELSE [exc |-> FALSE,
              entry |-> [title |-> IF given_title # <<>> THEN given_title
                                   ELSE IF Len(initial_content) > CreateTitleLen
                                   THEN Prefix(initial_content, CreateTitleLen) \o TXT_ELLIPSIS
                                   ELSE initial_content,
                         original_content |-> initial_content,
                         source_type |-> IF has_images /\ ~has_content
                                         THEN "image" ELSE source_type,
                         source_url |-> source_url,
                         images |-> IF has_images THEN images ELSE <<>>,
                         processing_status |-> "pending"]]

\* create_knowledge, lines 79-128
create_knowledge(request) ==
    LET has_content == HasText(request.content)
        has_images == HasItems(request.images)
        has_url == HasText(request.source_url)
        source_type == IF has_images /\ ~has_content THEN "image"
                       ELSE IF has_url /\ ~has_content THEN "url"
                       ELSE request.source_type
        created == KnowledgeService_create(
                       IF request.content = NoneText THEN <<>> ELSE request.content,
                       request.title, source_type, request.source_url, request.images)
    IN  IF ~has_content /\ ~has_images /\ ~has_url
        THEN [request EXCEPT !.pc = "rejected"]          \* HTTPException 400
        ELSE IF created.exc
        THEN [request EXCEPT !.pc = "raised"]            \* ValueError leaves the handler
        ELSE [request EXCEPT !.pc = "stored", !.entry = created.entry]

LongContent == [i \in 1..CreateTitleLen + 1 |-> "x"]

Requests ==
    [pc : {"received"},
     content : {NoneText, <<>>, <<" ">>, <<"a", "b">>, LongContent},
     title : {NoneText, <<"T">>},
     source_type : {"manual", "file"},
     source_url : {NoneText, <<" ">>, SampleUrl},
     images : {NoneText, <<>>, <<"ok">>},
     entry : {<<>>}]

InitCreate ==
    /\ Idle
    /\ ex = ExIdle
    /\ req \in Requests
    /\ knowledge = NoEntry

CreateKnowledge ==
    /\ req.pc = "received"
    /\ req' = create_knowledge(req)
    /\ UNCHANGED <<ai_configured, run, twin, ex, peer, inst, knowledge>>

NextCreate == CreateKnowledge

SpecCreate == InitCreate /\ [][NextCreate]_vars

-----------------------------------------------------------------------------
(* Observations on a run *)

IsGatewayCall(e) == e \in {"call_api:vision", "call_api:text"}
IsStageEvent(e) == e \in {StageEvent[Stages[i]] : i \in 1..Len(Stages)}

\* the number of requests run made to the Model Gateway
GatewayCalls(r) == Len(SelectSeq(r.events, IsGatewayCall))

\* the stage executors run entered, in order
StageSeq(r) == SelectSeq(r.events, IsStageEvent)

\* the stage executors and gateway requests of run, in order
WorkSeq(r) == SelectSeq(r.events, LAMBDA e : IsGatewayCall(e) \/ IsStageEvent(e))

AllStages == [i \in 1..Len(Stages) |-> StageEvent[Stages[i]]]

\* the result a stage executor returned to run
StageResult(r, stage) ==
    CASE stage = "extract" -> r.extraction
      [] stage = "analyze" -> r.analysis
      [] stage = "search" -> r.enriched
      [] stage = "verify" -> r.verification
      [] stage = "synthesize" -> r.final

Blank(t) == Strip(t) = <<>>

CountIn(q, x) == Cardinality({i \in 1..Len(q) : q[i] = x})

\* every vision request of the run, and there is one, returned nothing
VisionFailed(r) ==
    /\ \E i \in 1..Len(r.events) : r.events[i] = "call_api:vision"
    /\ \A i \in 1..Len(r.events) :
          r.events[i] = "call_api:vision" => r.events[i + 1] = "reply:none"

\* every text request of the run returned a JSON object
TextRepliesValid(r) ==
    \A s \in DOMAIN r.replies :
        r.replies[s] # "" => r.replies[s] = "json" /\ IsDict(StageResult(r, s))

-----------------------------------------------------------------------------
(* Claims *)

\* C1: run never propagates an exception to its caller, whatever the content,
\* the images and the gateway replies (no text, unparseable text, a JSON
\* object, JSON that is not an object): it always returns a card.
C1_NeverRaises == run.pc # "raised"

\* C2: every card run returns, on every path, holds all seven required
\* fields title, summary, key_points, tags, category, difficulty, action_items.
C2_RequiredFieldsPresent ==
    run.pc = "done" => IsDict(run.card) /\ RequiredFields \subseteq DOMAIN run.card.d

\* C3: for blank content and no images, run returns a card with the one fixed
\* no-content title and the one fixed no-content summary, with empty
\* key_points, tags and action_items, and the gateway is never invoked.
C3_BlankInputFixedCard ==
    Blank(run.content) /\ run.images = <<>> =>
        /\ GatewayCalls(run) = 0
        /\ run.pc # "raised"
        /\ run.pc = "done" =>
              /\ run.card.d["title"] = JStr(TXT_UNKNOWN_CONTENT)
              /\ run.card.d["summary"] = JStr(TXT_IMAGE_CONTENT)
              /\ run.card.d["key_points"] = JList(<<>>)
              /\ run.card.d["tags"] = JList(<<>>)
              /\ run.card.d["action_items"] = JList(<<>>)

\* a parsed card with no error marker: an object that is not empty, has no
\* error field, and whose title and tags, where given, are a text and a list
CleanCard(v) ==
    /\ IsDict(v) /\ DOMAIN v.d # {} /\ "error" \notin DOMAIN v.d
    /\ Get(v.d, "title", JStr(<<>>)).t = "str"
    /\ Get(v.d, "tags", JList(<<>>)).t = "list"

\* C4: if the fast path succeeds (its single call returns a parsed card with
\* no error marker), run returns that card without entering any stage
\* executor, and the gateway was called exactly once (no vision pre-pass) or
\* exactly twice (vision pre-pass plus the text call).
C4_FastSuccessSkipsStages ==
    CleanCard(run.fast) =>
        /\ run.pc = "done" /\ run.via = "fast" /\ run.card = run.fast
        /\ StageSeq(run) = <<>>
        /\ GatewayCalls(run) \in {1, 2}
        /\ run.images = <<>> => GatewayCalls(run) = 1
        /\ GatewayCalls(run) = 2 <=> "call_api:vision" \in {run.events[i] : i \in 1..Len(run.events)}

C4_Witness ==
    /\ run.pc = "done" /\ run.via = "fast" /\ CleanCard(run.fast)
    /\ GatewayCalls(run) = 2

\* C5: with an unconfigured gateway, run ends at once: the gateway is invoked
\* at most once in the whole run and no stage executor calls it again.
C5_UnconfiguredEndsAtOnce ==
    ~ai_configured /\ run.pc \in Terminal => GatewayCalls(run) <= 1

\* C6: on the staged path, whenever Verify's confidence is at least 0.7 and
\* Synthesize produced a tag list, the card run returns holds the
\* verification tag exactly once.
C6_VerifiedTagOnce ==
    /\ run.pc \in Terminal
    /\ IsDict(run.verification) /\ IsDict(run.final)
    /\ Confidence(run.verification).t = "num"
    /\ ConfidenceHigh(Confidence(run.verification))
    /\ Get(run.final.d, "tags", JList(<<>>)).t = "list"
    => /\ run.pc = "done"
       /\ Get(run.card.d, "tags", JList(<<>>)).t = "list"
       /\ CountIn(Get(run.card.d, "tags", JList(<<>>)).l, TAG_VERIFIED) = 1

\* C7: a stage whose gateway request returned no text, or text that cannot be
\* parsed, returns a non-empty result (its heuristic reconstruction) that
\* carries an error annotation.
C7_DegradedStageAnnotated ==
    \A s \in DOMAIN run.replies :
        run.replies[s] \in {"none", "invalid"} =>
            /\ IsDict(StageResult(run, s))
            /\ DOMAIN StageResult(run, s).d # {}
            /\ "error" \in DOMAIN StageResult(run, s).d

\* C8: once Extract has returned without a no-content error, Analyze,
\* Search-Enrich, Verify and Synthesize are each executed exactly once, in
\* that order, whatever the earlier stages returned.
C8_AllStagesInOrder ==
    /\ run.pc \in Terminal
    /\ run.extraction.kind # "unset"
    /\ ~(IsDict(run.extraction)
         /\ GetOrNone(run.extraction.d, "error") = JStr(ERR_NO_EXTRACT))
    => StageSeq(run) = AllStages

\* C9: with empty text and at least one image, when the gateway fails on the
\* vision pre-pass and answers its text requests with valid output, run does
\* not end through the no-content short-circuit: the stages after Extract
\* are executed and the returned card has a non-empty title.
C9_VisionFailureStillStaged ==
    /\ run.pc \in Terminal
    /\ run.content = <<>> /\ run.images # <<>>
    /\ VisionFailed(run) /\ TextRepliesValid(run)
    => /\ run.pc = "done" /\ run.via = "synthesize"
       /\ StageSeq(run) = AllStages
       /\ Truthy(Get(run.card.d, "title", JNull))

\* what the caller and the gateway see of a run
Outcome(r) == <<r.pc, r.card, r.via, WorkSeq(r)>>

\* C10: for a fixed input and fixed gateway replies, the card run returns and
\* the sequence of stages and gateway calls it performs are the same whether
\* each notification is delivered, reports failure or raises.
C10_NotifyOutcomeIrrelevant == Outcome(run) = Outcome(twin.ref)

C10_Witness ==
    /\ twin.raised
    /\ run.pc = "done" /\ run.via = "synthesize"
    /\ "notify:extract_done" \in {run.events[i] : i \in 1..Len(run.events)}

\* the step of run that returns from the fast path, taken with text reply treply
FastReturn(treply) ==
    /\ run.pc = "fast" /\ run'.pc = "done" /\ run'.via = "fast"
    /\ \E vreply \in VisionReplies, nt \in NotifyOutcomes :
          run' = RunFastPath(run, ai_configured, vreply, treply, nt)

\* C11 (amended): when the fast path succeeds, the card run returns equals
\* the object parsed from the fast-path model response, with no field added,
\* removed or rewritten, and it carries no error field with a truthy value.
C11_FastCardUnchanged ==
    [][\A treply \in FastReplies :
          FastReturn(treply) =>
              /\ treply.body = "json" /\ run'.card = treply.val
              /\ ~Truthy(GetOrNone(run'.card.d, "error"))]_vars

C11_Witness ==
    /\ run.pc = "done" /\ run.via = "fast"
    /\ Get(run.card.d, "tags", JNull) = JList(<<<<"a", "i">>>>)

\* C11 as stated: when the fast path succeeds, the card run returns is the
\* object parsed from the model response and carries no error field.
C11_FastCardNoErrorField ==
    run.via = "fast" =>
        /\ \E treply \in FastReplies : treply.body = "json" /\ run.card = treply.val
        /\ "error" \notin DOMAIN run.card.d

\* C12: for every text the extractor parses successfully, the same text
\* inside a fenced block, whose opening marker is bare or carries a language
\* annotation (json or any other tag), parses to the same structure.
C12_FenceTransparent ==
    ex.pc = "parsed" /\ ~ex.plain.exc /\ ex.fenced_done =>
        ~ex.fenced.exc /\ ex.fenced.val = ex.plain.val

C14_ExtractNeverRaises ==
    ex.pc = "parsed" => ~ex.plain.exc /\ ~(ex.fenced_done /\ ex.fenced.exc)

NoContentRun(r) ==
    /\ r.pc \in Terminal
    /\ IsDict(r.extraction)
    /\ GetOrNone(r.extraction.d, "error") = JStr(ERR_NO_EXTRACT)

\* C16: the card run returns in the no-content case carries an error flag
\* that marks it as a no-usable-content outcome.
C16_NoContentFlagged ==
    NoContentRun(run) =>
        run.pc = "done" /\ Truthy(GetOrNone(run.card.d, "error"))

\* C17: a create-knowledge request that supplies at least one of content,
\* images or source_url is accepted end to end: it passes the router's
\* validation and KnowledgeService.create stores an entry without raising.
C17_CreateAccepted ==
    /\ req.pc \notin {"none", "received"}
    /\ HasText(req.content) \/ HasItems(req.images) \/ HasText(req.source_url)
    => req.pc = "stored"

IsNotification(e) ==
    e \in {"notify:start", "notify:fast_done", "notify:downgrade",
           "notify:extract_done", "notify:pipeline_done", "notify:exception"}

\* the positions of event e in the history of r
Positions(r, e) == {i \in 1..Len(r.events) : r.events[i] = e}

\* C18: the fast path is always attempted first, and whenever it fails run
\* emits the downgrade notification and then executes Extract; no stage
\* executor starts before the fast-path attempt has finished.
C18_FastFirstThenDowngrade ==
    /\ run.pc \notin {"idle", "fast"} =>
          /\ run.events[1] = "notify:start" /\ run.events[2] = "fast:begin"
          /\ Cardinality(Positions(run, "fast:end")) = 1
    /\ \A i \in 1..Len(run.events) :
          IsStageEvent(run.events[i]) => \E j \in 1..i - 1 : run.events[j] = "fast:end"
    /\ run.pc \notin {"idle", "fast"} /\ run.via # "fast" =>
          \E j \in Positions(run, "fast:end") :
              /\ Len(run.events) > j /\ run.events[j + 1] = "notify:downgrade"
              /\ IF Len(run.events) > j + 1
                 THEN run.events[j + 2] = "stage:extract"
                 ELSE run.pc = "extract"

C18_Witness ==
    /\ run.pc = "done" /\ run.via = "synthesize"
    /\ Positions(run, "notify:downgrade") # {}
    /\ Positions(run, "call_api:text") # {}

\* C19: whenever Extract's result carries the no-content error, none of
\* Analyze, Search-Enrich, Verify and Synthesize is executed, no gateway call
\* is made after Extract returns, and run returns the fallback card.
C19_NoContentShortCircuit ==
    IsDict(run.extraction)
    /\ GetOrNone(run.extraction.d, "error") = JStr(ERR_NO_EXTRACT) =>
        /\ run.pc = "done" /\ run.via = "fallback"
        /\ StageSeq(run) = <<"stage:extract">>
        /\ run.replies = [s \in {"extract"} |-> ""]
        /\ \E i \in Positions(run, "stage:extract") :
              SubSeq(run.events, i + 1, Len(run.events)) \in
                  {<<"notify:exception">>,
                   <<"call_api:vision", "reply:none", "notify:exception">>,
                   <<"call_api:vision", "reply:text", "notify:exception">>}
        /\ run.card = PvDict(FallbackCard(run.extraction.d, run.content))
        /\ run.card.d["title"] = JStr(TXT_UNKNOWN_CONTENT)

C19_Witness ==
    /\ run.pc = "done" /\ run.via = "fallback"
    /\ IsDict(run.extraction)
    /\ GetOrNone(run.extraction.d, "error") = JStr(ERR_NO_EXTRACT)
    /\ run.images # <<>> /\ Positions(run, "call_api:vision") # {}

\* C20: on the staged path a progress notification is emitted at every stage
\* boundary: between the start of a stage and the start of the next one
\* there is a notification.
C20_NotifyEveryBoundary ==
    \A i, j \in 1..Len(run.events) :
        /\ i < j /\ IsStageEvent(run.events[i]) /\ IsStageEvent(run.events[j])
        => \E k \in i + 1..j - 1 : IsNotification(run.events[k])

\* the text request of a stage returned nothing or text that is not JSON
NoModelOutput(r, stage) ==
    /\ stage \in DOMAIN r.replies
    /\ r.replies[stage] \in {"none", "invalid"}

\* C21: whenever Synthesize ran without a repo_url from the model (here: the
\* model returned nothing or text that cannot be parsed) and Search-Enrich
\* gave an inferred_github_url, the returned card's repo_url is that URL.
C21_RepoUrlSubstituted ==
    (/\ run.pc = "done" /\ run.via = "synthesize"
     /\ NoModelOutput(run, "synthesize")
     /\ IsDict(run.enriched)
     /\ Truthy(GetOrNone(run.enriched.d, "inferred_github_url")))
    => GetOrNone(run.card.d, "repo_url") = run.enriched.d.inferred_github_url

\* C22: when the output of Synthesize cannot be parsed, the card copies title
\* and summary from Extract, category and difficulty from Analyze, and its
\* key_points, tags and action_items are empty (the verification tag that run
\* appends afterwards aside).
C22_SynthesizeFallbackLists ==
    (/\ run.pc = "done" /\ run.via = "synthesize"
     /\ "synthesize" \in DOMAIN run.replies
     /\ run.replies["synthesize"] = "invalid")
    => /\ run.card.d.title = Get(run.extraction.d, "title", JStr(TXT_FAILED))
       /\ run.card.d.summary = Get(run.extraction.d, "raw_summary", JStr(<<>>))
       /\ run.card.d.category = Get(run.analysis.d, "domain", JStr(TXT_UNCATEGORIZED))
       /\ run.card.d.difficulty =
              Get(run.analysis.d, "complexity_level", JStr(TXT_INTERMEDIATE))
       /\ run.card.d.key_points = JList(<<>>)
       /\ run.card.d.action_items = JList(<<>>)
       /\ run.card.d.tags \in {JList(<<>>), JList(<<TAG_VERIFIED>>)}

\* the list fields of an extraction other than detected_urls
ExtractListFields ==
    {"detected_names", "detected_versions", "detected_commands",
     "detected_features", "source_hints"}

\* C23: when the text request of Extract returned nothing or text that cannot
\* be parsed (no images given, so the combined input is the content), the
\* result of Extract has title = the first 100 characters, raw_summary = the
\* first 500 characters, detected_urls = the URLs of the input listed once,
\* and every other list field present and empty.
C23_ExtractFallbackFields ==
    (NoModelOutput(run, "extract") /\ run.images = <<>>)
    => /\ IsDict(run.extraction)
       /\ GetOrNone(run.extraction.d, "title") = JStr(Prefix(run.content, ExtractTitleLen))
       /\ GetOrNone(run.extraction.d, "raw_summary") =
              JStr(Prefix(run.content, ExtractSummaryLen))
       /\ GetOrNone(run.extraction.d, "detected_urls") = JList(_extract_urls(run.content))
       /\ \A k \in ExtractListFields :
              GetOrNone(run.extraction.d, k) = JList(<<>>)

-----------------------------------------------------------------------------
(* One run whose awaited calls all return: run is a single coroutine, so once
   the gateway or the notification sink answers, its next statement executes *)

SpecLive == Init /\ [][Next]_vars /\ WF_vars(Next)

\* the states of run in the order the code passes through them
Rank(pc) ==
    CASE pc = "idle" -> 0
      [] pc = "fast" -> 1
      [] pc = "extract" -> 2
      [] pc = "analyze" -> 3
      [] pc = "search" -> 4
      [] pc = "verify" -> 5
      [] pc = "synthesize" -> 6
      [] OTHER -> 7

\* C24: when every awaited call returns, every run eventually reaches Done
\* and returns a card.
C24_EventuallyDone == <>(run.pc = "done" /\ IsDict(run.card))

\* C24, the ordering part: run never moves back to an earlier state, and it
\* makes at most one fast-path attempt and enters each stage at most once.
C24_NeverMovesBack ==
    [][/\ Rank(run'.pc) >= Rank(run.pc)
       /\ CountIn(run'.events, "fast:begin") <= 1
       /\ \A i \in 1..Len(Stages) : CountIn(run'.events, StageEvent[Stages[i]]) <= 1]_vars

\* the position of the end of the fast-path attempt in the history of r
FastEnd(r) ==
    IF Positions(r, "fast:end") = {} THEN Len(r.events)
    ELSE CHOOSE i \in Positions(r, "fast:end") : TRUE

\* how many of the events lo..hi of r are the event e
CallsIn(r, e, lo, hi) == Cardinality({i \in lo..hi : r.events[i] = e})

\* C25: a run makes at most 8 requests to the Model Gateway: at most one
\* vision and one text request on the fast path, then at most one more vision
\* request and five text requests on the staged path.
C25_AtMostEightCalls ==
    LET fe == FastEnd(run)
        n == Len(run.events)
    IN  /\ GatewayCalls(run) <= 8
        /\ CallsIn(run, "call_api:vision", 1, fe) <= 1
        /\ CallsIn(run, "call_api:text", 1, fe) <= 1
        /\ CallsIn(run, "call_api:vision", fe + 1, n) <= 1
        /\ CallsIn(run, "call_api:text", fe + 1, n) <= Len(Stages)

\* a run that made all eight requests, the vision pre-pass twice
C25_Witness ==
    /\ run.pc = "done" /\ run.via = "synthesize"
    /\ GatewayCalls(run) = 8
    /\ CallsIn(run, "call_api:vision", 1, Len(run.events)) = 2

\* content that is not blank but shorter than the minimum after trimming,
\* given with no images
ShortRun(r) ==
    /\ ~Blank(r.content)
    /\ Len(Strip(r.content)) < MinContentLen
    /\ r.images = <<>>

\* C26: short content without images is handled like missing content: the
\* fast path and Extract both end with the no-content error without a gateway
\* request, no later stage is entered, and run returns the fallback card
\* whose summary is the raw content.
C26_ShortContentIsNoContent ==
    (ShortRun(run) /\ run.pc \in Terminal)
    => /\ run.pc = "done" /\ run.via = "fallback"
       /\ run.events = <<"notify:start", "fast:begin", "fast:end", "notify:downgrade",
                         "stage:extract", "notify:exception">>
       /\ run.extraction = PvDict([error |-> JStr(ERR_NO_EXTRACT)])
       /\ run.card = PvDict(FallbackCard(EmptyDict, run.content))
       /\ run.card.d.summary = JStr(run.content)

C26_Witness == ShortRun(run) /\ run.pc = "done" /\ run.card.d.summary = JStr(<<"a", "b", "c">>)

\* C27: when the request of Verify returned nothing or text that cannot be
\* parsed, the confidence run uses is 0.5, the verification tag is not
\* appended, and the tags of the returned card are the tags Synthesize
\* produced (final_result is left as Synthesize returned it).
C27_DegradedVerifyKeepsTags ==
    (/\ run.pc = "done"
     /\ NoModelOutput(run, "verify")
     /\ "synthesize" \in DOMAIN run.replies)
    => /\ Confidence(run.verification) = JNum(DefaultConfidence)
       /\ IsDict(run.final)
       /\ GetOrNone(run.card.d, "tags") = GetOrNone(run.final.d, "tags")

\* C27, on the runs that return the card of Synthesize
C27_ConfidenceIsDefault ==
    (/\ run.pc = "done" /\ run.via = "synthesize"
     /\ NoModelOutput(run, "verify"))
    => /\ Confidence(run.verification) = JNum(DefaultConfidence)
       /\ run.card = run.final

\* C28: every card run returns from the staged path, be it the result of
\* Synthesize (parsed or fallback) or the exception fallback, holds the seven
\* keys title, summary, key_points, tags, category, difficulty, action_items
\* whenever the result of Extract is a mapping.
C28_StagedCardHasSevenKeys ==
    (/\ run.pc = "done"
     /\ run.via \in {"synthesize", "fallback"}
     /\ IsDict(run.extraction))
    => /\ IsDict(run.card)
       /\ RequiredFields \subseteq DOMAIN run.card.d

\* a run that returned the fallback card of Synthesize
C28_Witness ==
    /\ run.pc = "done" /\ run.via = "synthesize"
    /\ run.replies["synthesize"] = "invalid"
    /\ IsDict(run.extraction)
    /\ RequiredFields \subseteq DOMAIN run.card.d

\* an object of the model that carries a non-empty error field
ErrorMarked == PvDict([title |-> SampleTitle, error |-> JStr(<<"b", "a", "d">>)])

\* C29: an error field supplied by the model is a failure marker. On the fast
\* path (usable content, configured gateway) the parsed object is rejected:
\* run notifies the downgrade and goes on to Extract. In the parsed output of
\* Extract it ends the run as the no-content error does: no later stage is
\* entered and the fallback card built from that extraction is returned.
C29_ModelErrorIsFailure ==
    /\ (/\ run.pc = "fast" /\ ai_configured
        /\ run.images = <<>> /\ ~NoUsableContent(run.content))
       => \A nt \in NotifyOutcomes :
             LET r == RunFastPath(run, ai_configured, ReplyNone, ReplyJson(ErrorMarked), nt)
             IN  /\ r.pc = "extract"
                 /\ r.card = PvUnset
                 /\ r.events = run.events \o
                        <<"fast:begin", "call_api:text", "fast:end", "notify:downgrade">>
    /\ (/\ run.pc \in Terminal
        /\ "extract" \in DOMAIN run.replies /\ run.replies["extract"] = "json"
        /\ IsDict(run.extraction)
        /\ Truthy(GetOrNone(run.extraction.d, "error")))
       => /\ run.pc = "done" /\ run.via = "fallback"
          /\ StageSeq(run) = <<"stage:extract">>
          /\ run.events[Len(run.events)] = "notify:exception"
          /\ run.events[Len(run.events) - 1] = "call_api:text"
          /\ run.card = PvDict(FallbackCard(run.extraction.d, run.content))

\* Extract parsed an error-marked object of the model and run returned
C29_Witness ==
    /\ run.pc = "done" /\ run.via = "fallback"
    /\ run.replies["extract"] = "json"
    /\ run.extraction = ErrorMarked
    /\ run.card.d.title = SampleTitle

-----------------------------------------------------------------------------
(* AIService.distill_knowledge and KnowledgeService.process_with_ai on one   *)
(* stored entry; the commits of the session are taken to succeed             *)

ImageOnlyLen == 50          \* len(content.strip()) < 50
DistillMinLen == 10         \* len(actual_content.strip()) < 10
FailSummaryLen == 200       \* actual_content[:200]
ParseSummaryLen == 500      \* result[:500]

ERR_IMAGE == <<"E", "6">>                       \* "图片分析失败"
ERR_EMPTY == <<"E", "7">>                       \* "内容为空"
ERR_AI == <<"A", "I", " ", "f", "a", "i", "l", "e", "d">>   \* "AI processing failed"
TXT_IMAGE_UNREADABLE == <<"I", "m", "g", "U">>  \* "图片内容无法识别"
TXT_IMAGE_HINT == <<"I", "m", "g", "H">>        \* "无法从上传的图片中提取内容，..."
TXT_CANNOT_HANDLE == <<"N", "o", "H">>          \* "无法处理"
TXT_NOTHING_GIVEN == <<"N", "o", "G">>          \* "没有提供有效的内容或图片进行分析。"
TXT_UNPROCESSED == <<"U", "n", "p">>            \* "未处理"
TXT_PARSE_FAILED == <<"P", "F">>                \* "解析失败"
TXT_CANNOT_PROCESS == <<"N", "o", "P">>         \* "内容无法处理"
LBL_IMAGE_ANALYSIS == <<"\n", "\n", "-", "-", "-", "\n", "I", "m", "g", "A", ":", "\n">>
                                                \* "\n\n---\n图片内容分析：\n"
LBL_FROM_IMAGE == <<"[", "I", "m", "g", "X", "]", "\n", "\n">>      \* "[从图片提取的内容]\n\n"
LBL_KEY_POINTS == <<"\n", "\n", "K", "P", ":", "\n">>               \* "\n\n关键点:\n"

\* distill_knowledge: the dict returned on a failure it detects itself
DistillError(error, title, summary) ==
    PvDict([error |-> JStr(error),
            title |-> JStr(title),
            summary |-> JStr(summary),
            key_points |-> JList(<<>>),
            tags |-> JList(<<>>),
            category |-> JStr(TXT_UNCATEGORIZED),
            difficulty |-> JStr(TXT_UNKNOWN),
            action_items |-> JList(<<>>)])

\* distill_knowledge: images is None when the entry has none. json.loads
\* returns whatever value the text denotes; only JSONDecodeError is caught.
distill_knowledge(configured, content, images, vreply, treply) ==
    LET has_images == Len(images) > 0
        little == content = <<>> \/ Len(Strip(content)) < ImageOnlyLen
        image_content == IF has_images THEN analyze_image(configured, images, vreply).ret
                         ELSE ReplyNone
        image_ok == image_content.kind = "text" /\ image_content.txt # <<>>
        actual_content ==
            IF has_images /\ image_ok
            THEN IF little THEN image_content.txt
                 ELSE content \o LBL_IMAGE_ANALYSIS \o image_content.txt
            ELSE content
        result == _call_api(configured, treply)
    IN  IF has_images /\ little /\ ~image_ok
        THEN DistillError(ERR_IMAGE, TXT_IMAGE_UNREADABLE, TXT_IMAGE_HINT)
        ELSE IF actual_content = <<>> \/ Len(Strip(actual_content)) < DistillMinLen
        THEN DistillError(ERR_EMPTY, TXT_CANNOT_HANDLE, TXT_NOTHING_GIVEN)
        ELSE IF result.kind = "none" \/ result.txt = <<>>
        THEN DistillError(ERR_AI, TXT_UNPROCESSED,
                          IF Len(actual_content) > FailSummaryLen
                          THEN Prefix(actual_content, FailSummaryLen) \o TXT_ELLIPSIS
                          ELSE actual_content)
        ELSE IF result.body = "invalid"
        THEN PvDict([title |-> JStr(TXT_PARSE_FAILED),
                     summary |-> JStr(Prefix(result.txt, ParseSummaryLen)),
                     key_points |-> JList(<<>>),
                     tags |-> JList(<<>>),
                     category |-> JStr(TXT_UNCATEGORIZED),
                     difficulty |-> JStr(TXT_UNKNOWN),
                     action_items |-> JList(<<>>),
                     raw_response |-> JStr(result.txt)])
        ELSE result.val

\* process_with_ai, lines 173-174: the columns set when distilled has an error
FailedColumns(distilled) ==
    [title |-> Get(distilled, "title", JStr(TXT_FAILED)),
     summary |-> Get(distilled, "summary", JStr(TXT_CANNOT_PROCESS))]

\* process_with_ai, lines 180-190
DistilledColumns(distilled, title) ==
    [title |-> Get(distilled, "title", title),
     summary |-> Get(distilled, "summary", JStr(<<>>)),
     key_points |-> Get(distilled, "key_points", JList(<<>>)),
     tags |-> Get(distilled, "tags", JList(<<>>)),
     category |-> Get(distilled, "category", JStr(TXT_UNCATEGORIZED)),
     difficulty |-> Get(distilled, "difficulty", JStr(TXT_UNKNOWN)),
     action_items |-> Get(distilled, "action_items", JList(<<>>)),
     usage_example |-> GetOrNone(distilled, "usage_example"),
     deployment_guide |-> GetOrNone(distilled, "deployment_guide"),
     is_open_source |-> Get(distilled, "is_open_source", JBool(FALSE)),
     repo_url |-> GetOrNone(distilled, "repo_url")]

\* "\n".join(f"- {kp}" for kp in key_points), key_points a list of strings
RECURSIVE KeyPointLines(_)
KeyPointLines(kps) ==
    IF kps = <<>> THEN <<>>
    ELSE <<"-", " ">> \o Head(kps)
         \o (IF Len(kps) > 1 THEN <<"\n">> \o KeyPointLines(Tail(kps)) ELSE <<>>)

\* process_with_ai, lines 193-195: an entry made from images alone keeps the
\* summary and key points as its content (summary a string, key_points a list)
ImageReference(distilled) ==
    LBL_FROM_IMAGE \o GetOrNone(distilled, "summary").s \o LBL_KEY_POINTS
    \o KeyPointLines(Get(distilled, "key_points", JList(<<>>)).l)

\* process_with_ai, lines 164 and 195: distilled.get raises when distilled is
\* not a dict, and the generator raises when key_points cannot be iterated
DistilledRaises(k, distilled) ==
    \/ ~IsDict(distilled)
    \/ /\ k.source_type = "image"
       /\ ~Truthy(GetOrNone(distilled.d, "error"))
       /\ Truthy(GetOrNone(distilled.d, "summary"))
       /\ Get(distilled.d, "key_points", JList(<<>>)).t \notin {"list", "str"}

has_images(k) == Len(k.images) > 0

\* the entry KnowledgeService.create stored, about to be processed; exists
\* is whether the select of lines 104-107 finds it
NewEntry(entry, exists) ==
    [pc |-> "start",
     exists |-> exists,
     title |-> JStr(entry.title),
     original_content |-> entry.original_content,
     source_type |-> entry.source_type,
     images |-> entry.images,
     processing_status |-> entry.processing_status,
     processing_steps |-> <<>>,
     is_processed |-> FALSE,
     embedded |-> FALSE,
     columns |-> EmptyDict,         \* the columns process_with_ai has set
     distilled |-> PvUnset,         \* the local distilled
     committed |-> <<>>]            \* history: processing_status at each commit

\* one commit of the session
Commit(k) == [k EXCEPT !.committed = Append(@, k.processing_status)]

\* process_with_ai, lines 104-125
ProcessValidate(k) ==
    IF ~k.exists THEN [k EXCEPT !.pc = "raised"]
    ELSE Commit([k EXCEPT !.pc = "validated",
                          !.processing_status = "validating",
                          !.processing_steps = Append(@, <<"validating", "completed">>)])

\* process_with_ai, lines 127-138
ProcessMarkImages(k) ==
    Commit([k EXCEPT !.pc = "marked",
                     !.processing_status = "analyzing_images",
                     !.processing_steps = Append(@, <<"analyzing_images", "in_progress">>)])

\* process_with_ai, lines 140-149
ProcessMarkDistilling(k) ==
    Commit([k EXCEPT !.pc = "distilling",
                     !.processing_status = "distilling",
                     !.processing_steps = Append(@, <<"distilling", "in_progress">>)])

\* process_with_ai, lines 151-223
ProcessDistill(k, configured, vreply, treply) ==
    LET content_for_distill == IF k.source_type = "image" THEN <<>>
                               ELSE k.original_content
        distilled == distill_knowledge(configured, content_for_distill, k.images,
                                       vreply, treply)
        k1 == [k EXCEPT !.distilled = distilled]
        done_steps == (IF has_images(k) THEN <<<<"analyzing_images", "completed">>>>
                       ELSE <<>>)
                      \o <<<<"distilling", "completed">>, <<"embedding", "in_progress">>>>
    IN  IF DistilledRaises(k, distilled) THEN [k1 EXCEPT !.pc = "raised"]
        ELSE IF Truthy(GetOrNone(distilled.d, "error"))
        THEN Commit([k1 EXCEPT !.pc = "returned",
                               !.processing_status = "failed",
                               !.processing_steps = Append(@, <<"distilling", "failed">>),
                               !.columns = FailedColumns(distilled.d)])
        ELSE Commit([k1 EXCEPT !.pc = "embedding",
                               !.processing_status = "embedding",
                               !.processing_steps = @ \o done_steps,
                               !.columns = DistilledColumns(distilled.d, k.title),
                               !.original_content =
                                   IF /\ k.source_type = "image"
                                      /\ Truthy(GetOrNone(distilled.d, "summary"))
                                   THEN ImageReference(distilled.d) ELSE @])

\* get_embedding returns a vector, returns None, or the try block raises
EmbeddingOutcomes == {"vector", "none", "raises"}

\* process_with_ai, lines 224-268
ProcessEmbed(k, outcome) ==
    LET status == CASE outcome = "vector" -> "completed"
                    [] outcome = "none" -> "skipped"
                    [] OTHER -> "failed"
    IN  Commit([k EXCEPT !.pc = "returned",
                         !.embedded = outcome = "vector",
                         !.processing_status = "completed",
                         !.is_processed = TRUE,
                         !.processing_steps =
                             @ \o <<<<"embedding", status>>, <<"completed", "completed">>>>])

\* the entries create stores for these contents and images
StoredEntries ==
    {KnowledgeService_create(content, NoneText, "manual", NoneText, images).entry :
        content \in {<<"a", "b">>, LongText, LongContent},
        images \in {<<>>, <<"ok">>, <<"missing">>}}
    \cup {KnowledgeService_create(<<>>, NoneText, "image", NoneText, images).entry :
            images \in {<<"ok">>, <<"missing">>}}

\* what the model answers to the distillation request
DistillReplies ==
    {ReplyNone, ReplyInvalid, ReplyJson(PvList(1)), ReplyJson(PvNull),
     ReplyJson(PvDict(SampleCard(<<>>))),
     ReplyJson(ErrorMarked),
     ReplyJson(PvDict([title |-> SampleTitle, error |-> JStr(<<>>)])),
     ReplyJson(PvDict([summary |-> JStr(<<"S", "u", "m">>), key_points |-> JNull]))}

InitProcess ==
    /\ ai_configured \in BOOLEAN
    /\ run = NewRun(<<>>, <<>>) /\ twin = [ref |-> run, raised |-> FALSE]
    /\ ex = ExIdle /\ peer = NoPeer /\ inst = Instance /\ req = NoRequest
    /\ \E entry \in StoredEntries, exists \in BOOLEAN : knowledge = NewEntry(entry, exists)

Validate ==
    /\ knowledge.pc = "start"
    /\ knowledge' = ProcessValidate(knowledge)
    /\ UNCHANGED <<ai_configured, run, twin, ex, peer, inst, req>>

MarkImages ==
    /\ knowledge.pc = "validated" /\ has_images(knowledge)
    /\ knowledge' = ProcessMarkImages(knowledge)
    /\ UNCHANGED <<ai_configured, run, twin, ex, peer, inst, req>>

MarkDistilling ==
    /\ \/ knowledge.pc = "validated" /\ ~has_images(knowledge)
       \/ knowledge.pc = "marked"
    /\ knowledge' = ProcessMarkDistilling(knowledge)
    /\ UNCHANGED <<ai_configured, run, twin, ex, peer, inst, req>>

Distill ==
    /\ knowledge.pc = "distilling"
    /\ \E vreply \in VisionReplies, treply \in DistillReplies :
          knowledge' = ProcessDistill(knowledge, ai_configured, vreply, treply)
    /\ UNCHANGED <<ai_configured, run, twin, ex, peer, inst, req>>

Embed ==
    /\ knowledge.pc = "embedding"
    /\ \E outcome \in EmbeddingOutcomes : knowledge' = ProcessEmbed(knowledge, outcome)
    /\ UNCHANGED <<ai_configured, run, twin, ex, peer, inst, req>>

NextProcess == Validate \/ MarkImages \/ MarkDistilling \/ Distill \/ Embed

SpecProcess == InitProcess /\ [][NextProcess]_vars

\* the statuses process_with_ai commits before it calls distill_knowledge
StatusesBeforeDistill(k) ==
    <<"validating">> \o (IF has_images(k) THEN <<"analyzing_images">> ELSE <<>>)
    \o <<"distilling">>

\* C30: process_with_ai on a stored entry ends with the statuses validating,
\* analyzing_images only when the entry has images, distilling, and then either
\* failed, exactly when the distillation result carries an error, or
\* embedding and completed with is_processed true, whatever the embedding
\* step's outcome.
C30_StatusPath ==
    (knowledge.pc \in {"returned", "raised"} /\ knowledge.exists)
    => LET error == IsDict(knowledge.distilled)
                    /\ Truthy(GetOrNone(knowledge.distilled.d, "error"))
       IN  /\ knowledge.pc = "returned"
           /\ IF error
              THEN /\ knowledge.committed = StatusesBeforeDistill(knowledge) \o <<"failed">>
                   /\ knowledge.processing_status = "failed"
                   /\ ~knowledge.is_processed
              ELSE /\ knowledge.committed =
                          StatusesBeforeDistill(knowledge) \o <<"embedding", "completed">>
                   /\ knowledge.processing_status = "completed"
                   /\ knowledge.is_processed

\* C30, on the calls that return
C30_StatusPathWhenReturned ==
    (knowledge.pc = "returned")
    => LET error == Truthy(GetOrNone(knowledge.distilled.d, "error"))
       IN  /\ IsDict(knowledge.distilled)
           /\ knowledge.committed = StatusesBeforeDistill(knowledge)
                  \o (IF error THEN <<"failed">> ELSE <<"embedding", "completed">>)
           /\ knowledge.processing_status = (IF error THEN "failed" ELSE "completed")
           /\ knowledge.is_processed = ~error

====
